---- MODULE Spec2Model ----
(***************************************************************************)
(* A model of the usbinfo library: DevicePath (path.rs), the generic       *)
(* PortTree trie and the UsbTree index (tree.rs), and the TreeFormatter    *)
(* renderer (formatter.rs).                                                *)
(*                                                                         *)
(* Strings are sequences of one-character strings, so that rendering and   *)
(* parsing are computed character by character.                            *)
(***************************************************************************)
EXTENDS Integers, Sequences, FiniteSets, TLC

VARIABLES
    mode,     \* path scenarios: which scenario and how far it has run
    path,     \* a DevicePath [bus, ports]
    other,    \* a second DevicePath
    text,     \* a string: input of from_str, or output of to_string
    result,   \* what the last path operation returned
    pt,       \* a stand-alone PortTree<T>
    ptOp,     \* the arguments of the last PortTree::insert call
    ptLast,   \* history: port sequence -> last value inserted exactly there
    devices,  \* UsbTree.devices : key string -> value
    tree,     \* UsbTree.tree    : bus string -> PortTree<String>
    last,     \* history: DevicePath -> the value last stored at that path, by
              \* an insertion or through a reference handed out by get_mut
    obs       \* what the last query / render of the UsbTree returned

vars == <<mode, path, other, text, result, pt, ptOp, ptLast, devices, tree, last, obs>>

None == "None"

(***************************************************************************)
(* Bounds and sample sets                                                  *)
(***************************************************************************)
U8Max == 255

\* longest port chain of a generated DevicePath
MaxPorts == 3
\* longest input string handed to from_str
MaxStrLen == 5

Digit == {"0", "1", "2", "3", "4", "5", "6", "7", "8", "9"}
DigitVal(c) ==
    CASE c = "0" -> 0 [] c = "1" -> 1 [] c = "2" -> 2 [] c = "3" -> 3 [] c = "4" -> 4
      [] c = "5" -> 5 [] c = "6" -> 6 [] c = "7" -> 7 [] c = "8" -> 8 [] c = "9" -> 9
DigitChar(d) == <<"0", "1", "2", "3", "4", "5", "6", "7", "8", "9">>[d + 1]

\* characters of the strings handed to from_str
Alphabet == {"0", "2", "5", ":", ".", "+", "a"}
\* port values of generated paths
PortSamples == {0, 10, 255}
BusSamples == {0, 9, 100, 255}
\* paths of the pairwise scenarios
RelBus == {1, 12}
RelPorts == {1, 2, 12}

SeqsUpTo(S, n) == UNION {[1..k -> S] : k \in 0..n}

(***************************************************************************)
(* String helpers (std)                                                    *)
(***************************************************************************)
\* position of the first occurrence of c in s, 0 when there is none
RECURSIVE FindFrom(_, _, _)
FindFrom(s, c, i) ==
    IF i > Len(s) THEN 0
    ELSE IF s[i] = c THEN i
    ELSE FindFrom(s, c, i + 1)

\* str::split_once(c): None, or the text before and after the first c
split_once(s, c) ==
    LET i == FindFrom(s, c, 1) IN
    IF i = 0 THEN None
    ELSE <<SubSeq(s, 1, i - 1), SubSeq(s, i + 1, Len(s))>>

\* str::split(c): every piece between separators, empty pieces included
RECURSIVE split(_, _)
split(s, c) ==
    LET i == FindFrom(s, c, 1) IN
    IF i = 0 THEN <<s>>
    ELSE <<SubSeq(s, 1, i - 1)>> \o split(SubSeq(s, i + 1, Len(s)), c)

\* the digits of a u8 accumulated left to right with checked arithmetic;
\* -1 on a non-digit or on overflow
RECURSIVE AccDigits(_, _, _)
AccDigits(t, i, acc) ==
    IF i > Len(t) THEN acc
    ELSE IF t[i] \notin Digit THEN -1
    ELSE LET n == acc * 10 + DigitVal(t[i]) IN
         IF n > U8Max THEN -1 ELSE AccDigits(t, i + 1, n)

\* str::parse::<u8>(): the value, or -1 for any ParseIntError
ParseU8(t) ==
    IF Len(t) = 0 THEN -1
    ELSE IF t = <<"+">> \/ t = <<"-">> THEN -1
    ELSE IF t[1] = "+" THEN AccDigits(Tail(t), 1, 0)
    ELSE AccDigits(t, 1, 0)

\* u8::to_string(): decimal, no leading zeros
RECURSIVE U8ToString(_)
U8ToString(n) ==
    IF n < 10 THEN <<DigitChar(n)>>
    ELSE U8ToString(n \div 10) \o <<DigitChar(n % 10)>>

\* [String]::join(sep)
RECURSIVE join(_, _)
join(parts, sep) ==
    IF Len(parts) = 0 THEN <<>>
    ELSE IF Len(parts) = 1 THEN parts[1]
    ELSE parts[1] \o sep \o join(Tail(parts), sep)

(***************************************************************************)
(* DevicePath (path.rs)                                                    *)
(***************************************************************************)
DevicePath(bus, ports) == [bus |-> bus, ports |-> ports]

Ok(p) == [ok |-> TRUE, path |-> p]
Err(kind, carried) == [ok |-> FALSE, err |-> kind, text |-> carried]

\* collect_ports with unparsable tokens dropped instead of reported
RECURSIVE collect_ports_lenient(_, _, _)
collect_ports_lenient(tokens, i, acc) ==
    IF i > Len(tokens) THEN [ok |-> TRUE, ports |-> acc]
    ELSE LET v == ParseU8(tokens[i]) IN
         IF v = -1 THEN collect_ports_lenient(tokens, i + 1, acc)
         ELSE collect_ports_lenient(tokens, i + 1, Append(acc, v))

\* the ports of a non-empty remainder: Ok(ports) or the first InvalidPort
RECURSIVE collect_ports(_, _, _)
collect_ports(tokens, i, acc) ==
    IF i > Len(tokens) THEN [ok |-> TRUE, ports |-> acc]
    ELSE LET v == ParseU8(tokens[i]) IN
         IF v = -1 THEN [ok |-> FALSE, token |-> tokens[i]]
         ELSE collect_ports(tokens, i + 1, Append(acc, v))

\* impl FromStr for DevicePath
from_str(s) ==
    LET sp == split_once(s, ":") IN
    IF sp = None THEN Err("InvalidFormat", <<>>)
    ELSE
      LET bus_str == sp[1]
          port_str == sp[2]
      IN
      IF Len(bus_str) = 0 THEN Err("MissingBus", <<>>)
      ELSE
        LET bus == ParseU8(bus_str) IN
        IF bus = -1 THEN Err("InvalidBus", bus_str)
        ELSE IF Len(port_str) = 0 THEN Ok(DevicePath(bus, <<>>))
        ELSE
          LET c == collect_ports(split(port_str, "."), 1, <<>>) IN
          IF c.ok THEN Ok(DevicePath(bus, c.ports))
          ELSE Err("InvalidPort", c.token)

\* the port chain as strings
PortStrings(ports) == [i \in 1..Len(ports) |-> U8ToString(ports[i])]

\* to_string with the ports joined without a separator
to_string_unseparated(p) ==
    IF Len(p.ports) = 0 THEN U8ToString(p.bus) \o <<":">>
    ELSE U8ToString(p.bus) \o <<":">> \o join(PortStrings(p.ports), <<>>)

\* impl fmt::Display for DevicePath
to_string(p) ==
    IF Len(p.ports) = 0 THEN U8ToString(p.bus) \o <<":">>
    ELSE U8ToString(p.bus) \o <<":">> \o join(PortStrings(p.ports), <<".">>)

\* slice::starts_with
starts_with(xs, pre) ==
    /\ Len(pre) <= Len(xs)
    /\ \A i \in 1..Len(pre) : xs[i] = pre[i]

\* is_ancestor_of with a non-strict length comparison
is_ancestor_of_nonstrict(a, b) ==
    /\ a.bus = b.bus
    /\ Len(a.ports) <= Len(b.ports)
    /\ starts_with(b.ports, a.ports)

is_ancestor_of(a, b) ==
    /\ a.bus = b.bus
    /\ Len(a.ports) < Len(b.ports)
    /\ starts_with(b.ports, a.ports)

is_descendant_of(a, b) == is_ancestor_of(b, a)

(***************************************************************************)
(* PortTree<T> (tree.rs)                                                   *)
(***************************************************************************)
\* PortTree::new / Default: no value, no children
PortTreeNew == [value |-> None, children |-> <<>>]

\* insert that replaces the child on the way by a fresh node
RECURSIVE PortTreeInsertFresh(_, _, _)
PortTreeInsertFresh(t, ports, value) ==
    IF Len(ports) = 0 THEN [t EXCEPT !.value = value]
    ELSE [t EXCEPT !.children =
            (ports[1] :> PortTreeInsertFresh(PortTreeNew, Tail(ports), value)) @@ @]

\* PortTree::insert
RECURSIVE PortTreeInsert(_, _, _)
PortTreeInsert(t, ports, value) ==
    IF Len(ports) = 0 THEN [t EXCEPT !.value = value]
    ELSE LET child == IF ports[1] \in DOMAIN t.children
                      THEN t.children[ports[1]]
                      ELSE PortTreeNew
         IN [t EXCEPT !.children =
               (ports[1] :> PortTreeInsert(child, Tail(ports), value)) @@ @]

\* Option<&PortTree<T>>::None
NoNode == [none |-> TRUE]

\* PortTree::get: the node at the port path, or None
RECURSIVE PortTreeGet(_, _)
PortTreeGet(t, ports) ==
    IF Len(ports) = 0 THEN t
    ELSE IF ports[1] \notin DOMAIN t.children THEN NoNode
    ELSE PortTreeGet(t.children[ports[1]], Tail(ports))

\* a hash map's keys in the map's iteration order: order lists every
\* possible key once, in the order this map happens to iterate them
KeysInOrder(map, order) == SelectSeq(order, LAMBDA k : k \in DOMAIN map)

\* Ord for u8
U8Less(a, b) == a < b

\* the byte of a character of a decimal string
Byte(c) == 48 + DigitVal(c)

\* Ord for str: bytewise lexicographic, a proper prefix first
StrLess(a, b) ==
    \E i \in 1..(Len(b)) :
      /\ \A j \in 1..(i - 1) : j <= Len(a) /\ a[j] = b[j]
      /\ \/ i = Len(a) + 1
         \/ i <= Len(a) /\ Byte(a[i]) < Byte(b[i])

\* the order a sort uses: Ord of u8, Ord of str, or strings by their number
Less(ord, a, b) ==
    CASE ord = "u8" -> U8Less(a, b)
      [] ord = "str" -> StrLess(a, b)
      [] ord = "number" -> ParseU8(a) < ParseU8(b)

\* slice::sort, as an insertion sort
RECURSIVE InsertSorted(_, _, _)
InsertSorted(sorted, x, ord) ==
    IF Len(sorted) = 0 THEN <<x>>
    ELSE IF Less(ord, x, sorted[1]) THEN <<x>> \o sorted
    ELSE <<sorted[1]>> \o InsertSorted(Tail(sorted), x, ord)

RECURSIVE SortBy(_, _)
SortBy(xs, ord) ==
    IF Len(xs) = 0 THEN <<>>
    ELSE InsertSorted(SortBy(SubSeq(xs, 1, Len(xs) - 1), ord), xs[Len(xs)], ord)

\* child_ports without the sort: the map's own iteration order
child_ports_unsorted(t, order) == KeysInOrder(t.children, order)

\* PortTree::child_ports: the child keys, sorted ascending
child_ports(t, order) == SortBy(KeysInOrder(t.children, order), "u8")

\* every node owns its children map, and every map iterates in an order of
\* its own: orders gives the iteration order of the map of the node at loc
\* (the keys that lead to the node), orders.default where orders.at names none
OrderAt(orders, loc) ==
    IF loc \in DOMAIN orders.at THEN orders.at[loc] ELSE orders.default

\* PortTree::descendants of the node t at loc: own value first, then each
\* child's descendants, the children in the iteration order of t's own map
RECURSIVE descendants(_, _, _)
RECURSIVE DescendantsOfChildren(_, _, _, _, _)
descendants(t, orders, loc) ==
    (IF t.value # None THEN <<t.value>> ELSE <<>>)
      \o DescendantsOfChildren(t, KeysInOrder(t.children, OrderAt(orders, loc)),
                               1, orders, loc)

\* for child in self.children.values() { result.extend(child.descendants()) }
DescendantsOfChildren(t, keys, i, orders, loc) ==
    IF i > Len(keys) THEN <<>>
    ELSE descendants(t.children[keys[i]], orders, Append(loc, keys[i]))
           \o DescendantsOfChildren(t, keys, i + 1, orders, loc)

(***************************************************************************)
(* UsbTree<T> (tree.rs)                                                    *)
(***************************************************************************)
\* DevicePath::bus_str
bus_str(p) == U8ToString(p.bus)

\* UsbTree::new
UsbTreeNew == [devices |-> <<>>, tree |-> <<>>]

\* an insertion that writes the trie but not the flat map
insert_path_trie_only(u, p, value) ==
    LET key == to_string(p)
        bus == bus_str(p)
        t == IF bus \in DOMAIN u.tree THEN u.tree[bus] ELSE PortTreeNew
    IN [devices |-> u.devices,
        tree |-> (bus :> PortTreeInsert(t, p.ports, key)) @@ u.tree]

\* UsbTree::insert_path
insert_path(u, p, value) ==
    LET key == to_string(p)
        bus == bus_str(p)
        t == IF bus \in DOMAIN u.tree THEN u.tree[bus] ELSE PortTreeNew
    IN [devices |-> (key :> value) @@ u.devices,
        tree |-> (bus :> PortTreeInsert(t, p.ports, key)) @@ u.tree]

\* a target that saturates where the bus string does not parse
InsertTargetSaturating(bus, ports) ==
    LET n == ParseU8(bus) IN DevicePath(IF n = -1 THEN U8Max ELSE n, ports)

\* the path the convenience insert builds: an unparsable bus becomes 0
InsertTarget(bus, ports) ==
    LET n == ParseU8(bus) IN DevicePath(IF n = -1 THEN 0 ELSE n, ports)

\* UsbTree::insert
insert(u, bus, ports, value) == insert_path(u, InsertTarget(bus, ports), value)

\* HashMap::get on devices
DevicesGet(u, key) == IF key \in DOMAIN u.devices THEN u.devices[key] ELSE None

\* UsbTree::get_by_path
get_by_path(u, p) == DevicesGet(u, to_string(p))

\* a lookup by the literal string only
get_literal(u, s) == DevicesGet(u, s)

\* UsbTree::get
get(u, s) ==
    IF s \in DOMAIN u.devices THEN u.devices[s]
    ELSE LET parsed == from_str(s) IN
         IF parsed.ok THEN DevicesGet(u, to_string(parsed.path))
         ELSE None

\* UsbTree::try_get
try_get(u, s) ==
    LET d == get(u, s) IN
    IF d # None THEN [ok |-> TRUE, value |-> d]
    ELSE [ok |-> FALSE, err |-> "DeviceNotFound", text |-> s]

\* filter_map(|key| self.devices.get(key))
RECURSIVE ResolveKeys(_, _)
ResolveKeys(u, keys) ==
    IF Len(keys) = 0 THEN <<>>
    ELSE (IF keys[1] \in DOMAIN u.devices THEN <<u.devices[keys[1]]>> ELSE <<>>)
           \o ResolveKeys(u, Tail(keys))

\* the keys that lead to the node of p: the bus string in the map of bus
\* trees, then the ports
NodeLoc(p) == <<bus_str(p)>> \o p.ports

\* get_subtree_by_path without the value at the path itself
get_subtree_strict(u, p, orders) ==
    IF bus_str(p) \notin DOMAIN u.tree THEN <<>>
    ELSE LET node == PortTreeGet(u.tree[bus_str(p)], p.ports) IN
         IF node = NoNode THEN <<>>
         ELSE ResolveKeys(u, DescendantsOfChildren(
                                 node,
                                 KeysInOrder(node.children, OrderAt(orders, NodeLoc(p))),
                                 1, orders, NodeLoc(p)))

\* UsbTree::get_mut: the slot of devices stored under exactly this string, if
\* there is one (no parsing, unlike get)
get_mut(u, path_str) ==
    IF path_str \in DOMAIN u.devices THEN <<path_str>> ELSE <<>>

\* UsbTree::get_mut_by_path
get_mut_by_path(u, p) ==
    IF to_string(p) \in DOMAIN u.devices THEN <<to_string(p)>> ELSE <<>>

\* an assignment through the &mut T that get_mut / get_mut_by_path hands out
StoreAt(u, slot, value) == [u EXCEPT !.devices[slot] = value]

\* UsbTree::get_subtree_by_path
get_subtree_by_path(u, p, orders) ==
    IF bus_str(p) \notin DOMAIN u.tree THEN <<>>
    ELSE LET node == PortTreeGet(u.tree[bus_str(p)], p.ports) IN
         IF node = NoNode THEN <<>>
         ELSE ResolveKeys(u, descendants(node, orders, NodeLoc(p)))

\* buses sorted by their number instead of their text
buses_numeric(u, order) == SortBy(KeysInOrder(u.tree, order), "number")

\* UsbTree::buses: the bus ids, sorted as strings
buses(u, order) == SortBy(KeysInOrder(u.tree, order), "str")

\* UsbTree::bus_tree
bus_tree(u, bus) == IF bus \in DOMAIN u.tree THEN u.tree[bus] ELSE NoNode

(***************************************************************************)
(* TreeStyle and TreeFormatter (formatter.rs)                              *)
(***************************************************************************)
\* impl Default for TreeStyle (the box-drawing glyphs by their code points)
TreeStyleDefault ==
    [colored |-> TRUE, show_header |-> TRUE, indent |-> "    ",
     branch |-> "<251C><2500><2500> ", corner |-> "<2514><2500><2500> ",
     vertical |-> "<2502>   "]

\* TreeStyle::plain
TreeStylePlain == [TreeStyleDefault EXCEPT !.colored = FALSE]

\* TreeStyle::ascii (the corner's backtick by its code point)
TreeStyleAscii ==
    [TreeStyleDefault EXCEPT !.branch = "|-- ", !.corner = "<0060>-- ", !.vertical = "|   "]

\* TreeStyle::with_color
with_color(style, colored) == [style EXCEPT !.colored = colored]

\* TreeStyle::with_header
with_header(style, show_header) == [style EXCEPT !.show_header = show_header]

Palette ==
    <<"red", "yellow", "green", "cyan", "blue", "magenta",
      "bright_red", "bright_yellow", "bright_green", "bright_cyan">>

\* TreeFormatter::colorize: the text and the colour it is wrapped in
colorize(style, txt, depth) ==
    IF ~style.colored THEN [color |-> "none", text |-> txt]
    ELSE [color |-> Palette[(depth % 10) + 1], text |-> txt]

\* the line fmt_port_tree writes for a node. A device value stands for the
\* UsbDevice and for its Display text; key records the trie payload the line
\* was written for
DeviceLine(style, prefix, connector, device, depth, key) ==
    [kind |-> "device", prefix |-> prefix, connector |-> connector,
     body |-> colorize(style, device, depth), key |-> key]

\* format!("Bus {:03}", bus)
BusLabel(bus) ==
    LET d == U8ToString(bus)
        pad == IF Len(d) = 1 THEN <<"0", "0">> ELSE IF Len(d) = 2 THEN <<"0">> ELSE <<>>
    IN <<"B", "u", "s", " ">> \o pad \o d

HeaderLine(style, bus) ==
    LET n == ParseU8(bus) IN
    [kind |-> "header", body |-> colorize(style, BusLabel(IF n = -1 THEN 0 ELSE n), 0)]

BlankLine == [kind |-> "blank"]

\* TreeFormatter::fmt_port_tree: the lines written for a node and its subtree
RECURSIVE fmt_port_tree(_, _, _, _, _, _, _, _)
RECURSIVE FmtChildren(_, _, _, _, _, _, _, _, _, _)
fmt_port_tree(u, style, h, node, prefix, is_last, depth, loc) ==
    LET own ==
          IF node.value # None /\ node.value \in DOMAIN u.devices
          THEN LET connector == IF depth = 0 THEN ""
                                ELSE IF is_last THEN style.corner
                                ELSE style.branch
               IN <<DeviceLine(style, prefix, connector,
                               u.devices[node.value], depth, node.value)>>
          ELSE <<>>
    IN own \o FmtChildren(u, style, h, node,
                          child_ports(node, OrderAt(h.ports, loc)), 1,
                          prefix, is_last, depth, loc)

\* a loop over the child ports that draws the vertical glyph under every
\* ancestor, last sibling or not
RECURSIVE FmtChildrenAlwaysVertical(_, _, _, _, _, _, _, _, _, _)
FmtChildrenAlwaysVertical(u, style, h, node, ports, i, prefix, is_last, depth, loc) ==
    IF i > Len(ports) THEN <<>>
    ELSE
      LET new_prefix == IF depth = 0 THEN <<>> ELSE Append(prefix, style.vertical)
          rest == FmtChildrenAlwaysVertical(u, style, h, node, ports, i + 1,
                                            prefix, is_last, depth, loc)
      IN IF ports[i] \in DOMAIN node.children
         THEN fmt_port_tree(u, style, h, node.children[ports[i]], new_prefix,
                            i = Len(ports), depth + 1, Append(loc, ports[i]))
              \o rest
         ELSE rest

\* the loop over the sorted child ports of a node
FmtChildren(u, style, h, node, ports, i, prefix, is_last, depth, loc) ==
    IF i > Len(ports) THEN <<>>
    ELSE
      LET new_prefix == IF depth = 0 THEN <<>>
                        ELSE IF is_last THEN Append(prefix, style.indent)
                        ELSE Append(prefix, style.vertical)
          rest == FmtChildren(u, style, h, node, ports, i + 1, prefix, is_last,
                              depth, loc)
      IN IF ports[i] \in DOMAIN node.children
         THEN fmt_port_tree(u, style, h, node.children[ports[i]], new_prefix,
                            i = Len(ports), depth + 1, Append(loc, ports[i]))
              \o rest
         ELSE rest

\* the loop over the root's children in impl Display for TreeFormatter
RECURSIVE FmtRootChildren(_, _, _, _, _, _, _)
FmtRootChildren(u, style, h, root, ports, i, loc) ==
    IF i > Len(ports) THEN <<>>
    ELSE (IF ports[i] \in DOMAIN root.children
          THEN fmt_port_tree(u, style, h, root.children[ports[i]], <<>>,
                             i = Len(ports), 1, Append(loc, ports[i]))
          ELSE <<>>)
           \o FmtRootChildren(u, style, h, root, ports, i + 1, loc)

\* one bus section: header, the bus tree's lines, a blank line
FmtBus(u, style, h, bus) ==
    <<HeaderLine(style, bus)>>
      \o (IF bus_tree(u, bus) # NoNode
          THEN FmtRootChildren(u, style, h, bus_tree(u, bus),
                               child_ports(bus_tree(u, bus),
                                           OrderAt(h.ports, <<bus>>)),
                               1, <<bus>>)
          ELSE <<>>)
      \o <<BlankLine>>

RECURSIVE FmtBuses(_, _, _, _, _)
FmtBuses(u, style, h, bs, i) ==
    IF i > Len(bs) THEN <<>>
    ELSE FmtBus(u, style, h, bs[i]) \o FmtBuses(u, style, h, bs, i + 1)

\* impl fmt::Display for TreeFormatter
fmt(u, style, h) == FmtBuses(u, style, h, buses(u, h.buses), 1)

(***************************************************************************)
(* Path scenarios: round trip, parsing of arbitrary text, pairs of paths   *)
(***************************************************************************)
NoPath == DevicePath(0, <<>>)

RtPaths ==
    {DevicePath(b, ps) : b \in 0..U8Max, ps \in SeqsUpTo(PortSamples, MaxPorts)}
      \cup {DevicePath(b, <<q>>) : b \in BusSamples, q \in 0..U8Max}
RelPaths == {DevicePath(b, ps) : b \in RelBus, ps \in SeqsUpTo(RelPorts, MaxPorts)}
Strings == SeqsUpTo(Alphabet, MaxStrLen)

TrieIdle ==
    /\ pt = None /\ ptOp = None /\ ptLast = None
IndexIdle ==
    /\ devices = None /\ tree = None /\ last = None /\ obs = None

InitPath ==
    /\ \/ mode = "rt0" /\ path \in RtPaths /\ other = NoPath /\ text = <<>>
       \/ mode = "ps0" /\ path = NoPath /\ other = NoPath /\ text \in Strings
       \/ mode = "rel0" /\ path \in RelPaths /\ other \in RelPaths /\ text = <<>>
    /\ result = None
    /\ TrieIdle
    /\ IndexIdle

\* path.to_string()
RenderPath ==
    /\ mode = "rt0"
    /\ text' = to_string(path)
    /\ mode' = "rt1"
    /\ UNCHANGED <<path, other, result, pt, ptOp, ptLast, devices, tree, last, obs>>

\* text.parse::<DevicePath>() of a rendered path
ParseBack ==
    /\ mode = "rt1"
    /\ result' = from_str(text)
    /\ mode' = "rt2"
    /\ UNCHANGED <<path, other, text, pt, ptOp, ptLast, devices, tree, last, obs>>

\* text.parse::<DevicePath>() of an arbitrary string
Parse ==
    /\ mode = "ps0"
    /\ result' = from_str(text)
    /\ mode' = "ps1"
    /\ UNCHANGED <<path, other, text, pt, ptOp, ptLast, devices, tree, last, obs>>

\* path.to_string() and other.to_string()
RenderBoth ==
    /\ mode = "rel0"
    /\ result' = [a |-> to_string(path), b |-> to_string(other)]
    /\ mode' = "keys"
    /\ UNCHANGED <<path, other, text, pt, ptOp, ptLast, devices, tree, last, obs>>

\* path.is_ancestor_of(other), other.is_descendant_of(path), path.is_ancestor_of(path)
Ancestry ==
    /\ mode = "rel0"
    /\ result' = [anc |-> is_ancestor_of(path, other),
                  desc |-> is_descendant_of(other, path),
                  self |-> is_ancestor_of(path, path)]
    /\ mode' = "anc"
    /\ UNCHANGED <<path, other, text, pt, ptOp, ptLast, devices, tree, last, obs>>

NextPath == RenderPath \/ ParseBack \/ Parse \/ RenderBoth \/ Ancestry

SpecPath == InitPath /\ [][NextPath]_vars

(***************************************************************************)
(* Claims about DevicePath                                                 *)
(***************************************************************************)
\* C1: parsing the canonical string of a path succeeds and gives the path
\* back (same bus, same ports in the same order), and two different paths
\* never render to the same string.
C1_RoundTrip ==
    /\ mode = "rt2" => result = Ok(path)
    /\ mode = "keys" => (result.a = result.b => path = other)

\* a path with a multi-digit bus and several ports went through to_string
\* and from_str
C1_Witness ==
    /\ mode = "rt2"
    /\ path.bus = 255
    /\ path.ports = <<10, 0, 255>>
    /\ text = <<"2", "5", "5", ":", "1", "0", ".", "0", ".", "2", "5", "5">>

\* the text before and after the first colon, stated by position
HasColon(s) == \E i \in 1..Len(s) : s[i] = ":"
FirstColon(s) ==
    CHOOSE i \in 1..Len(s) : s[i] = ":" /\ \A j \in 1..(i - 1) : s[j] # ":"
BusText(s) == SubSeq(s, 1, FirstColon(s) - 1)
Remainder(s) == SubSeq(s, FirstColon(s) + 1, Len(s))

\* the number a string of digits denotes
RECURSIVE DecValue(_)
DecValue(d) ==
    IF Len(d) = 0 THEN 0
    ELSE 10 * DecValue(SubSeq(d, 1, Len(d) - 1)) + DigitVal(d[Len(d)])

\* t is a valid unsigned 8-bit integer in the sense of u8's FromStr: an
\* optional "+", then one or more decimal digits denoting at most 255
Unsigned(t) == IF Len(t) > 0 /\ t[1] = "+" THEN Tail(t) ELSE t
IsU8Text(t) ==
    /\ Len(Unsigned(t)) > 0
    /\ \A i \in 1..Len(Unsigned(t)) : Unsigned(t)[i] \in Digit
    /\ DecValue(Unsigned(t)) <= U8Max

\* the dot-separated tokens of r, by the positions of their separators
Seps(r) == {0, Len(r) + 1} \cup {i \in 1..Len(r) : r[i] = "."}
TokenSpans(r) ==
    {sp \in Seps(r) \X Seps(r) :
        sp[1] < sp[2] /\ \A k \in Seps(r) : ~(sp[1] < k /\ k < sp[2])}
TokenOf(r, sp) == SubSeq(r, sp[1] + 1, sp[2] - 1)
BadSpans(r) == {sp \in TokenSpans(r) : ~IsU8Text(TokenOf(r, sp))}
FirstBad(r) == CHOOSE sp \in BadSpans(r) : \A o \in BadSpans(r) : sp[1] <= o[1]
NthSpan(r, n) ==
    CHOOSE sp \in TokenSpans(r) : Cardinality({k \in Seps(r) : k < sp[2]}) = n
ExpectedPorts(r) ==
    IF Len(r) = 0 THEN <<>>
    ELSE [n \in 1..Cardinality(TokenSpans(r)) |->
            DecValue(Unsigned(TokenOf(r, NthSpan(r, n))))]

\* C4: from_str fails with InvalidFormat without a colon, MissingBus on an
\* empty bus text, InvalidBus (carrying the text) on a bus text that is no
\* u8, InvalidPort (carrying the token) on a token of a non-empty remainder
\* that is no u8, an empty token included; it succeeds in every other case,
\* an empty remainder giving a bus-only path.
C4_ParseErrors ==
    mode = "ps1" =>
      IF ~HasColon(text) THEN result = Err("InvalidFormat", <<>>)
      ELSE IF Len(BusText(text)) = 0 THEN result = Err("MissingBus", <<>>)
      ELSE IF ~IsU8Text(BusText(text)) THEN result = Err("InvalidBus", BusText(text))
      ELSE IF Len(Remainder(text)) > 0 /\ BadSpans(Remainder(text)) # {}
        THEN result = Err("InvalidPort",
                          TokenOf(Remainder(text), FirstBad(Remainder(text))))
      ELSE /\ result.ok
           /\ result.path.bus = DecValue(Unsigned(BusText(text)))
           /\ result.path.ports = ExpectedPorts(Remainder(text))

\* "2:5." was parsed: the trailing empty token is the invalid port
C4_Witness ==
    /\ mode = "ps1"
    /\ text = <<"2", ":", "5", ".">>
    /\ result = Err("InvalidPort", <<>>)

\* C9: a.is_ancestor_of(b) exactly when both have the same bus and a's ports
\* are b's ports with one or more trailing ports removed; it is equivalent
\* to b.is_descendant_of(a); and no path is an ancestor of itself.
C9_Ancestry ==
    mode = "anc" =>
      /\ result.anc <=>
           /\ path.bus = other.bus
           /\ \E k \in 1..Len(other.ports) :
                path.ports = SubSeq(other.ports, 1, Len(other.ports) - k)
      /\ result.anc <=> result.desc
      /\ ~result.self

\* a strict ancestor two levels above its descendant was compared
C9_Witness ==
    /\ mode = "anc"
    /\ path = DevicePath(1, <<2>>)
    /\ other = DevicePath(1, <<2, 12, 1>>)
    /\ result.anc /\ result.desc

(***************************************************************************)
(* A stand-alone PortTree<T> under insert and get                          *)
(***************************************************************************)
\* port paths handed to PortTree::insert
TrieSeqs == {<<>>, <<1>>, <<2>>, <<1, 1>>, <<1, 2>>, <<2, 1>>, <<1, 2, 1>>}
\* port paths handed to PortTree::get: those, and some never inserted
TrieQueries == TrieSeqs \cup {<<3>>, <<2, 2>>, <<1, 1, 1>>, <<1, 2, 1, 1>>}
TrieValues == {"a", "b"}

PathIdle ==
    /\ mode = None /\ path = NoPath /\ other = NoPath /\ text = <<>> /\ result = None

InitTrie ==
    /\ pt = PortTreeNew
    /\ ptOp = [op |-> "none"]
    /\ ptLast = [q \in TrieQueries |-> None]
    /\ PathIdle
    /\ IndexIdle

\* pt.insert(ports, value)
PtInsert ==
    \E ports \in TrieSeqs, value \in TrieValues :
      /\ pt' = PortTreeInsert(pt, ports, value)
      /\ ptOp' = [op |-> "insert", ports |-> ports, value |-> value]
      /\ ptLast' = [ptLast EXCEPT ![ports] = value]
      /\ UNCHANGED <<mode, path, other, text, result, devices, tree, last, obs>>

\* pt.get(ports)
PtGet ==
    \E ports \in TrieQueries :
      /\ ptOp' = [op |-> "get", ports |-> ports, node |-> PortTreeGet(pt, ports)]
      /\ UNCHANGED <<pt, ptLast>>
      /\ UNCHANGED <<mode, path, other, text, result, devices, tree, last, obs>>

NextTrie == PtInsert \/ PtGet

SpecTrie == InitTrie /\ [][NextTrie]_vars

IsPrefix(r, q) == Len(r) <= Len(q) /\ SubSeq(q, 1, Len(r)) = r

\* an insert writes the payload at exactly its port path, keeps every node
\* that existed and leaves every other payload as it was
InsertFrame ==
    (ptOp' # ptOp /\ ptOp'.op = "insert") =>
      /\ PortTreeGet(pt', ptOp'.ports) # NoNode
      /\ PortTreeGet(pt', ptOp'.ports).value = ptOp'.value
      /\ \A q \in TrieQueries :
           PortTreeGet(pt, q) # NoNode =>
             /\ PortTreeGet(pt', q) # NoNode
             /\ q # ptOp'.ports => PortTreeGet(pt', q).value = PortTreeGet(pt, q).value

\* every prefix of an inserted port path has a node, and a node's payload is
\* the last value inserted at exactly its port path, or none
PrefixNodes ==
    /\ \A q \in TrieSeqs : ptLast[q] # None =>
         \A r \in TrieQueries : IsPrefix(r, q) => PortTreeGet(pt, r) # NoNode
    /\ \A r \in TrieQueries :
         PortTreeGet(pt, r) # NoNode => PortTreeGet(pt, r).value = ptLast[r]
    /\ ptOp.op = "get" =>
         /\ ptOp.node = PortTreeGet(pt, ptOp.ports)
         /\ (\E q \in TrieSeqs : ptLast[q] # None /\ IsPrefix(ptOp.ports, q))
              => (ptOp.node # NoNode /\ ptOp.node.value = ptLast[ptOp.ports])

\* C8: PortTree::insert sets the payload at exactly the given port path,
\* creating missing nodes and overwriting a payload already there; every
\* other payload and every existing node is unchanged; so a node exists at
\* every prefix of every inserted path and holds the last value inserted at
\* exactly its location, or none.
C8_InsertFrame == []PrefixNodes /\ [][InsertFrame]_vars

\* a payload was overwritten at <<1, 2>> while its ancestor <<1>>, its
\* descendant <<1, 2, 1>> and its sibling <<1, 1>> kept theirs, and the root
\* never got one
C8_Witness ==
    /\ ptOp.op = "insert" /\ ptOp.ports = <<1, 2>> /\ ptOp.value = "b"
    /\ PortTreeGet(pt, <<1, 2, 1>>) # NoNode
    /\ PortTreeGet(pt, <<1, 1>>) # NoNode
    /\ PortTreeGet(pt, <<2>>) # NoNode
    /\ PortTreeGet(pt, <<1>>).value = "a"
    /\ PortTreeGet(pt, <<1, 2, 1>>).value = "a"
    /\ PortTreeGet(pt, <<1, 1>>).value = "b"
    /\ PortTreeGet(pt, <<2>>).value = None
    /\ pt.value = None

(***************************************************************************)
(* The UsbTree index under insertion, lookup and rendering                 *)
(***************************************************************************)
\* how many devices the index may hold
MaxDevices == 4

\* paths handed to insert_path
TreePaths ==
    {DevicePath(2, ps) :
        ps \in {<<>>, <<2>>, <<10>>, <<2, 2>>, <<2, 10>>, <<10, 2>>, <<2, 10, 2>>}}
      \cup {DevicePath(10, <<2>>)}
\* bus strings and port chains handed to the convenience insert
InsertBuses == {<<"2">>, <<"0">>, <<"a">>, <<"5", "0", "0">>}
InsertPorts == {<<2>>}
\* bus strings and port chains of the convenience insert when its calls are
\* followed one by one: valid, valid with a sign, zero, not a number, out of
\* range, empty
CallBuses == {<<"2">>, <<"+", "2">>, <<"0">>, <<"a">>, <<"5", "0", "0">>, <<>>}
CallPorts == {<<>>, <<2>>}
DeviceValues == {"devA", "devB"}

\* every path an insertion can reach, and some that none reaches
StoredPaths ==
    TreePaths \cup {InsertTarget(b, ps) : b \in InsertBuses, ps \in InsertPorts}
              \cup {InsertTarget(b, ps) : b \in CallBuses, ps \in CallPorts}
QueryPaths ==
    StoredPaths \cup {DevicePath(5, <<>>), DevicePath(2, <<5>>), DevicePath(10, <<2, 2>>)}

\* strings handed to get and try_get
LookupStrings ==
    {to_string(p) : p \in QueryPaths}
      \cup {<<"+", "2", ":", "2">>, <<"0", "2", ":", "2">>, <<"2", ":", "0", "2">>,
            <<"2", ":", "+", "2", ".", "1", "0">>, <<"0", "0", "2", ":">>,
            <<"2">>, <<"2", ":", "2", ".">>, <<"a", ":", "2">>, <<":", "2">>,
            <<"2", ":", "2", ".", ".", "1", "0">>, <<>>}

\* iteration orders of the two kinds of hash map
Hashers ==
    {[ports |-> [default |-> <<2, 10, 5>>,
                 at |-> (<<<<"2">>, 2>> :> <<10, 2, 5>>)],
      buses |-> <<<<"0">>, <<"2">>, <<"1", "0">>>>],
     [ports |-> [default |-> <<10, 5, 2>>, at |-> [loc \in {} |-> <<>>]],
      buses |-> <<<<"1", "0">>, <<"2">>, <<"0">>>>],
     [ports |-> [default |-> <<10, 2, 5>>,
                 at |-> (<<<<"2">>>> :> <<5, 2, 10>>)
                          @@ (<<<<"2">>, 2>> :> <<2, 10, 5>>)],
      buses |-> <<<<"2">>, <<"0">>, <<"1", "0">>>>]}

\* iteration orders of the children maps alone: those of Hashers, and the one
\* that completes the four ways two nodes with the children 2 and 10 (the
\* root of bus 2, and 2:2) can each iterate
PortOrders ==
    {h.ports : h \in Hashers}
      \cup {[default |-> <<5, 10, 2>>, at |-> (<<<<"2">>, 2>> :> <<2, 5, 10>>)]}

Styles ==
    {TreeStyleDefault, TreeStylePlain, with_header(TreeStylePlain, FALSE),
     with_header(TreeStyleAscii, FALSE)}

\* the index as one value
Index == [devices |-> devices, tree |-> tree]

Init ==
    /\ devices = UsbTreeNew.devices
    /\ tree = UsbTreeNew.tree
    /\ last = [p \in QueryPaths |-> None]
    /\ obs = [op |-> "none"]
    /\ PathIdle
    /\ TrieIdle

\* The index is filled first and read afterwards, as usb_tree and its callers
\* do. The reads take &self and cannot change the index, so what a read
\* returns depends on the insertions before it alone: a behaviour is a
\* sequence of insertions followed by one read.
Building == obs.op = "none"

\* the index holds at most MaxDevices devices
HasRoom(p) ==
    /\ Building
    /\ \/ to_string(p) \in DOMAIN devices
       \/ Cardinality(DOMAIN devices) < MaxDevices

\* tree.insert_path(&p, value)
InsertPath ==
    \E p \in TreePaths, value \in DeviceValues :
      /\ HasRoom(p)
      /\ LET u == insert_path(Index, p, value) IN
           devices' = u.devices /\ tree' = u.tree
      /\ last' = [last EXCEPT ![p] = value]
      /\ obs' = [op |-> "none"]
      /\ UNCHANGED <<mode, path, other, text, result, pt, ptOp, ptLast>>

\* tree.insert(bus, ports, value)
Insert ==
    \E bus \in InsertBuses, ports \in InsertPorts, value \in DeviceValues :
      /\ HasRoom(InsertTarget(bus, ports))
      /\ LET u == insert(Index, bus, ports, value) IN
           devices' = u.devices /\ tree' = u.tree
      /\ last' = [last EXCEPT ![InsertTarget(bus, ports)] = value]
      /\ obs' = [op |-> "none"]
      /\ UNCHANGED <<mode, path, other, text, result, pt, ptOp, ptLast>>

\* tree.insert(bus, ports, value), the call and the call before it kept in
\* obs; the call returns () for every bus string, so it has no guard
InsertCall ==
    \E bus \in CallBuses, ports \in CallPorts, value \in DeviceValues :
      /\ LET u == insert(Index, bus, ports, value) IN
           devices' = u.devices /\ tree' = u.tree
      /\ last' = [last EXCEPT ![InsertTarget(bus, ports)] = value]
      /\ obs' = [op |-> "insert", bus |-> bus, ports |-> ports, value |-> value,
                 prev |-> IF obs.op = "insert"
                          THEN <<[bus |-> obs.bus, ports |-> obs.ports,
                                  value |-> obs.value]>>
                          ELSE <<>>]
      /\ UNCHANGED <<mode, path, other, text, result, pt, ptOp, ptLast>>

\* *tree.get_mut(s)? = value: the caller writes through the reference
GetMut ==
    \E s \in LookupStrings, value \in DeviceValues :
      /\ Building
      /\ LET slot == get_mut(Index, s) IN
           IF Len(slot) > 0
           THEN /\ devices' = StoreAt(Index, slot[1], value).devices
                /\ last' = [last EXCEPT ![from_str(slot[1]).path] = value]
           ELSE UNCHANGED <<devices, last>>
      /\ obs' = [op |-> "none"]
      /\ UNCHANGED <<tree, mode, path, other, text, result, pt, ptOp, ptLast>>

\* *tree.get_mut_by_path(&p)? = value
GetMutByPath ==
    \E p \in QueryPaths, value \in DeviceValues :
      /\ Building
      /\ LET slot == get_mut_by_path(Index, p) IN
           IF Len(slot) > 0
           THEN /\ devices' = StoreAt(Index, slot[1], value).devices
                /\ last' = [last EXCEPT ![p] = value]
           ELSE UNCHANGED <<devices, last>>
      /\ obs' = [op |-> "none"]
      /\ UNCHANGED <<tree, mode, path, other, text, result, pt, ptOp, ptLast>>

\* tree.get_by_path(&p), for every p
GetByPath ==
    /\ Building
    /\ obs' = [op |-> "get_by_path", ret |-> [p \in QueryPaths |-> get_by_path(Index, p)]]
    /\ UNCHANGED <<devices, tree, last, mode, path, other, text, result, pt, ptOp, ptLast>>

\* tree.get(s), for every s
Get ==
    /\ Building
    /\ obs' = [op |-> "get", ret |-> [s \in LookupStrings |-> get(Index, s)]]
    /\ UNCHANGED <<devices, tree, last, mode, path, other, text, result, pt, ptOp, ptLast>>

\* tree.try_get(s), for every s
TryGet ==
    /\ Building
    /\ obs' = [op |-> "try_get", ret |-> [s \in LookupStrings |-> try_get(Index, s)]]
    /\ UNCHANGED <<devices, tree, last, mode, path, other, text, result, pt, ptOp, ptLast>>

\* tree.get_subtree_by_path(&p), for every p and iteration order
GetSubtreeByPath ==
    /\ Building
    /\ obs' = [op |-> "get_subtree_by_path",
               ret |-> [p \in QueryPaths, o \in PortOrders |->
                          get_subtree_by_path(Index, p, o)]]
    /\ UNCHANGED <<devices, tree, last, mode, path, other, text, result, pt, ptOp, ptLast>>

\* format!("{}", TreeFormatter::with_style(&tree, style)), for every style and
\* iteration order
RenderTree ==
    /\ Building
    /\ obs' = [op |-> "render",
               ret |-> [style \in Styles, h \in Hashers |-> fmt(Index, style, h)]]
    /\ UNCHANGED <<devices, tree, last, mode, path, other, text, result, pt, ptOp, ptLast>>

Next ==
    \/ InsertPath
    \/ Insert
    \/ GetMut
    \/ GetMutByPath
    \/ GetByPath
    \/ Get
    \/ TryGet
    \/ GetSubtreeByPath
    \/ RenderTree

Spec == Init /\ [][Next]_vars

\* a UsbTree filled by the convenience insert alone
NextInsert == InsertCall
SpecInsert == Init /\ [][NextInsert]_vars

(***************************************************************************)
(* Claims about the UsbTree index                                          *)
(***************************************************************************)
P(bus, ports) == DevicePath(bus, ports)
Count(seq, v) == Cardinality({i \in 1..Len(seq) : seq[i] = v})
Elems(seq) == {seq[i] : i \in 1..Len(seq)}

\* C2: every key stored as a payload in a bus's PortTree is a key of devices,
\* and get_by_path(p) returns the value of the last insertion at p, whatever
\* was inserted at other paths (last[p] is that value in an index built by
\* insertions; a write through get_mut replaces it, and is then what
\* get_by_path returns).
C2_IndexConsistency ==
    /\ \A b \in DOMAIN tree : \A o \in PortOrders :
         Elems(descendants(tree[b], o, <<b>>)) \subseteq DOMAIN devices
    /\ obs.op = "get_by_path" =>
         \A p \in QueryPaths : obs.ret[p] = last[p]

\* a full index was read back by path: one value stored through insert_path,
\* one through the convenience insert, one path never inserted
C2_Witness ==
    /\ obs.op = "get_by_path"
    /\ Cardinality(DOMAIN devices) = MaxDevices
    /\ obs.ret[P(2, <<2, 10>>)] = "devB"
    /\ obs.ret[P(2, <<2>>)] = "devA"
    /\ obs.ret[P(0, <<2>>)] = "devA"
    /\ obs.ret[P(10, <<2>>)] = None

\* C3: get_subtree_by_path(p) returns, as a multiset, the current values of
\* the inserted paths on p's bus whose ports have p's ports as a prefix, p
\* itself included; it is empty when there are none.
C3_Subtree ==
    obs.op = "get_subtree_by_path" =>
      \A p \in QueryPaths, h \in PortOrders :
        /\ Elems(obs.ret[p, h]) \subseteq DeviceValues
        /\ \A v \in DeviceValues :
             Count(obs.ret[p, h], v) =
               Cardinality({q \in QueryPaths :
                              /\ q.bus = p.bus
                              /\ IsPrefix(p.ports, q.ports)
                              /\ last[q] = v})

\* the subtree of 2:2 holds its own value and a descendant's, leaves out the
\* sibling 2:10 and the other bus, and the subtree of bus 2 comes in a
\* different order under two iteration orders
C3_Witness ==
    /\ obs.op = "get_subtree_by_path"
    /\ last[P(2, <<2>>)] = "devA" /\ last[P(2, <<2, 10>>)] = "devB"
    /\ last[P(2, <<10>>)] = "devB" /\ last[P(10, <<2>>)] = "devA"
    /\ \A h \in PortOrders : Len(obs.ret[P(2, <<2>>), h]) = 2
    /\ \A h \in PortOrders : obs.ret[P(2, <<5>>), h] = <<>>
    /\ \A h \in PortOrders : obs.ret[P(5, <<>>), h] = <<>>
    /\ \E h1, h2 \in PortOrders : obs.ret[P(2, <<>>), h1] # obs.ret[P(2, <<>>), h2]

\* what a lookup of the string s must find, by the insertion history
ExpectedLookup(s) ==
    LET r == from_str(s) IN
    IF r.ok /\ r.path \in QueryPaths THEN last[r.path] ELSE None

\* C5: get(s) equals get_by_path(p) for every s that parses to p and is
\* absent when s neither matches a key nor parses to an inserted path;
\* try_get(s) returns the same value when there is one and otherwise fails
\* with DeviceNotFound carrying s as passed.
C5_Lookup ==
    /\ obs.op = "get" =>
         \A s \in LookupStrings :
           /\ from_str(s).ok => obs.ret[s] = get_by_path(Index, from_str(s).path)
           /\ obs.ret[s] = ExpectedLookup(s)
    /\ obs.op = "try_get" =>
         \A s \in LookupStrings :
           IF ExpectedLookup(s) # None
           THEN obs.ret[s] = [ok |-> TRUE, value |-> ExpectedLookup(s)]
           ELSE obs.ret[s] = [ok |-> FALSE, err |-> "DeviceNotFound", text |-> s]

\* try_get found 2:2 under a non-canonical spelling, and reported an
\* unparsable string and a path never inserted as not found
C5_Witness ==
    /\ obs.op = "try_get"
    /\ obs.ret[<<"+", "2", ":", "2">>] = [ok |-> TRUE, value |-> "devB"]
    /\ obs.ret[<<"2", ":", "0", "2">>] = [ok |-> TRUE, value |-> "devB"]
    /\ ~obs.ret[<<"2", ":", "2", ".">>].ok
    /\ obs.ret[<<"5", ":">>] =
         [ok |-> FALSE, err |-> "DeviceNotFound", text |-> <<"5", ":">>]

(***************************************************************************)
(* Claims about the rendered tree                                          *)
(***************************************************************************)
Headers(out) == {i \in 1..Len(out) : out[i].kind = "header"}
Blanks(out) == {i \in 1..Len(out) : out[i].kind = "blank"}
DeviceLines(out) == {i \in 1..Len(out) : out[i].kind = "device"}
\* the section a line is in: the number of header lines up to it
SectionOf(out, i) == Cardinality({j \in Headers(out) : j <= i})
\* the place of a bus among the buses in lexicographic order of their strings
Rank(b) == Cardinality({c \in DOMAIN tree : StrLess(c, b)}) + 1
\* the path a device line stands for
LinePath(line) == from_str(line.key).path

\* C6: the output is one section per bus that has a tree, in lexicographic
\* order of the bus strings; a section is a header line for the bus, the
\* bus's device lines and one blank line; an empty index renders to nothing.
C6_Sections ==
    obs.op = "render" =>
      \A style \in Styles, h \in Hashers :
        LET out == obs.ret[style, h] IN
        /\ Cardinality(Headers(out)) = Cardinality(DOMAIN tree)
        /\ Cardinality(Blanks(out)) = Cardinality(DOMAIN tree)
        /\ DOMAIN devices = {} => out = <<>>
        /\ Len(out) > 0 => out[1].kind = "header" /\ out[Len(out)].kind = "blank"
        /\ \A i \in 1..(Len(out) - 1) :
             out[i].kind = "blank" <=> out[i + 1].kind = "header"
        /\ \A i \in Headers(out) :
             \E b \in DOMAIN tree :
               Rank(b) = SectionOf(out, i) /\ out[i] = HeaderLine(style, b)
        /\ \A i \in DeviceLines(out) :
             \E b \in DOMAIN tree :
               Rank(b) = SectionOf(out, i) /\ bus_str(LinePath(out[i])) = b

\* three buses were rendered: 0, then 10, then 2
C6_Witness ==
    /\ obs.op = "render"
    /\ DOMAIN tree = {<<"0">>, <<"2">>, <<"1", "0">>}
    /\ \A h \in Hashers :
         LET out == obs.ret[TreeStylePlain, h] IN
         /\ Len(out) = 9
         /\ \A i \in {1, 4, 7} : out[i].kind = "header"
         /\ out[8].kind = "device"
         /\ out[1].body.text = <<"B", "u", "s", " ", "0", "0", "0">>
         /\ out[4].body.text = <<"B", "u", "s", " ", "0", "1", "0">>
         /\ out[7].body.text = <<"B", "u", "s", " ", "0", "0", "2">>
         /\ out[8].key = <<"2", ":", "2">>

\* the index rebuilt from the last value of every inserted path, the paths
\* taken in one fixed order
RECURSIVE Rebuild(_, _)
Rebuild(u, todo) ==
    IF todo = {} THEN u
    ELSE LET p == CHOOSE q \in todo : TRUE IN
         Rebuild(insert_path(u, p, last[p]), todo \ {p})
CanonicalIndex == Rebuild(UsbTreeNew, {p \in QueryPaths : last[p] # None})

\* port chain a comes before b in a pre-order walk with ascending ports
PortsBefore(a, b) ==
    /\ a # b
    /\ \/ IsPrefix(a, b)
       \/ \E k \in 1..Len(a) :
            /\ k <= Len(b)
            /\ SubSeq(a, 1, k - 1) = SubSeq(b, 1, k - 1)
            /\ a[k] < b[k]

\* C7: the output depends on the set of (path, value) pairs alone, not on
\* the order of insertion nor on the iteration order of the hash maps; in a
\* bus section a node's line precedes its descendants' lines and sibling
\* subtrees come in ascending port order.
C7_Deterministic ==
    obs.op = "render" =>
      \A style \in Styles, h \in Hashers :
        LET out == obs.ret[style, h] IN
        /\ \A h2 \in Hashers : obs.ret[style, h2] = out
        /\ out = fmt(CanonicalIndex, style, h)
        /\ \A i, j \in DeviceLines(out) :
             (i < j /\ SectionOf(out, i) = SectionOf(out, j))
               => PortsBefore(LinePath(out[i]).ports, LinePath(out[j]).ports)

\* bus 2 was rendered with the siblings 2 and 10, each with a descendant
C7_Witness ==
    /\ obs.op = "render"
    /\ \A h \in Hashers :
         LET out == obs.ret[TreeStylePlain, h] IN
         /\ Len(out) = 6
         /\ \A i \in 2..5 : out[i].kind = "device"
         /\ out[2].key = <<"2", ":", "2">>
         /\ out[3].key = <<"2", ":", "2", ".", "1", "0">>
         /\ out[4].key = <<"2", ":", "1", "0">>
         /\ out[5].key = <<"2", ":", "1", "0", ".", "2">>

\* the output with its header lines left out
WithoutHeaders(out) == SelectSeq(out, LAMBDA line : line.kind # "header")

\* C10: with show_header = false the output has no header line, with
\* show_header = true it has, and the rest of the output is the same.
C10_ShowHeader ==
    obs.op = "render" =>
      \A style \in Styles, h \in Hashers :
        /\ ~style.show_header => Headers(obs.ret[style, h]) = {}
        /\ style.show_header =>
             WithoutHeaders(obs.ret[style, h]) = fmt(Index, with_header(style, FALSE), h)

\* C11: the output has exactly one device line for every node that carries a
\* payload resolving in devices, the bus root included, so the number of
\* device lines equals the number of stored devices.
C11_OneLinePerDevice ==
    obs.op = "render" =>
      \A style \in Styles, h \in Hashers :
        LET out == obs.ret[style, h] IN
        /\ Cardinality(DeviceLines(out)) = Cardinality(DOMAIN devices)
        /\ \A key \in DOMAIN devices :
             Cardinality({i \in DeviceLines(out) : out[i].key = key}) = 1

\* the paths something was stored at
StoredNow == {q \in QueryPaths : last[q] # None}
\* the ports under the node that is the parent of p's ancestor at depth k:
\* the trie has a node for every prefix of a stored path
SiblingPorts(p, k) ==
    {s.ports[k] : s \in {s \in StoredNow : /\ s.bus = p.bus
                                           /\ Len(s.ports) >= k
                                           /\ SubSeq(s.ports, 1, k - 1)
                                                = SubSeq(p.ports, 1, k - 1)}}
\* p's ancestor at depth k (p itself for k = Len(p.ports)) has the highest
\* port among its parent's children
LastSibling(p, k) == \A r \in SiblingPorts(p, k) : r <= p.ports[k]

\* C12: the line of a node at depth d >= 1 is prefix, connector, text: the
\* connector is the corner glyph when the node has the highest port among its
\* parent's children and the branch glyph otherwise; the prefix has one piece
\* for each ancestor at depths 1..d-1 from the top down, the indent string
\* when that ancestor is the last of its siblings and the vertical glyph
\* otherwise; children of the bus root have an empty prefix.
C12_Layout ==
    obs.op = "render" =>
      \A style \in Styles, h \in Hashers :
        LET out == obs.ret[style, h] IN
        \A i \in DeviceLines(out) :
          LET line == out[i]
              p == LinePath(line)
              d == Len(p.ports)
          IN d >= 1 =>
               /\ line.body = colorize(style, devices[line.key], d)
               /\ line.connector = (IF LastSibling(p, d) THEN style.corner
                                    ELSE style.branch)
               /\ Len(line.prefix) = d - 1
               /\ \A k \in 1..(d - 1) :
                    /\ line.prefix[k] = (IF LastSibling(p, k) THEN style.indent
                                         ELSE style.vertical)
                    /\ LastSibling(p, k) => line.prefix[k] # style.vertical
               /\ d = 1 => line.prefix = <<>>

\* the ASCII rendering of 2:2, 2:10, 2:2.10.2 and 2:10.2: the line of 2:2.10.2
\* is under the vertical glyph of 2:2 and the indent of 2:2.10, the line of
\* 2:10.2 under the indent of 2:10, 2:2 has a branch and 2:10 a corner
C12_Witness ==
    /\ obs.op = "render"
    /\ \A h \in Hashers :
         LET out == obs.ret[with_header(TreeStyleAscii, FALSE), h] IN
         /\ \E i \in DeviceLines(out) :
              /\ out[i].key = to_string(P(2, <<2, 10, 2>>))
              /\ out[i].prefix = <<"|   ", "    ">>
              /\ out[i].connector = "<0060>-- "
         /\ \E i \in DeviceLines(out) :
              /\ out[i].key = to_string(P(2, <<10, 2>>))
              /\ out[i].prefix = <<"    ">>
         /\ \E i \in DeviceLines(out) :
              /\ out[i].key = to_string(P(2, <<2>>))
              /\ out[i].prefix = <<>>
              /\ out[i].connector = "|-- "
         /\ \E i \in DeviceLines(out) :
              /\ out[i].key = to_string(P(2, <<10>>))
              /\ out[i].connector = "<0060>-- "

\* the bus a bus string stands for in the convenience insert: its value when
\* it is a valid unsigned 8-bit integer, 0 otherwise
CallBus(bus) == IF IsU8Text(bus) THEN DecValue(Unsigned(bus)) ELSE 0
\* the call is one the claim says lands on bus 0: the string is unparsable or
\* out of range, or it is "0"
Unparsable(bus) == ~IsU8Text(bus)
LandsOnZero(bus) == Unparsable(bus) \/ bus = <<"0">>

\* what a step of the convenience insert, whose call obs' records, does
InsertEffect ==
    LET c == obs'
        target == P(CallBus(c.bus), c.ports)
        u == insert_path(Index, target, c.value)
        key0 == to_string(P(0, c.ports))
    IN /\ devices' = u.devices
       /\ tree' = u.tree
       /\ get_by_path([devices |-> devices', tree |-> tree'], target) = c.value
       /\ Unparsable(c.bus) =>
            /\ key0 \in DOMAIN devices' /\ devices'[key0] = c.value
            /\ DOMAIN devices' = DOMAIN devices \cup {key0}
       /\ ( /\ c.prev # <<>>
            /\ c.prev[1].ports = c.ports
            /\ c.prev[1].bus # c.bus
            /\ LandsOnZero(c.prev[1].bus) /\ LandsOnZero(c.bus)
            /\ Unparsable(c.prev[1].bus) \/ Unparsable(c.bus) )
          => /\ devices[key0] = c.prev[1].value
             /\ devices'[key0] = c.value
             /\ DOMAIN devices' = DOMAIN devices

\* C13: the convenience insert never fails. With a bus string that is not a
\* valid unsigned 8-bit integer it stores the value at bus 0 with the given
\* ports, so after an insertion with another unparsable bus string, or with
\* "0", and the same ports it overwrites that value under the same key; with
\* a valid bus string it does what insert_path does with the path (bus, ports).
C13_Insert ==
    /\ [](obs.op = "insert" =>
            /\ to_string(P(CallBus(obs.bus), obs.ports)) \in DOMAIN devices
            /\ devices[to_string(P(CallBus(obs.bus), obs.ports))] = obs.value)
    /\ [][obs'.op = "insert" => InsertEffect]_vars

\* insert("a", [2], devA) then insert("500", [2], devB): one device, devB, is
\* stored, under 0:2
C13_Witness ==
    /\ obs.op = "insert"
    /\ obs.bus = <<"5", "0", "0">> /\ obs.ports = <<2>> /\ obs.value = "devB"
    /\ obs.prev = <<[bus |-> <<"a">>, ports |-> <<2>>, value |-> "devA"]>>
    /\ devices = (<<"0", ":", "2">> :> "devB")
    /\ DOMAIN tree = {<<"0">>}

====
